---- MODULE Spec2Model ----
(***************************************************************************)
(* VisualisationContainer (src/visualisations/visualisationcontainer.cpp)  *)
(* as a state machine: one action per event handler or slot.  The Qt       *)
(* objects the container drives (QBasicTimer, QSettings, QWidget geometry  *)
(* and window state, the overlay proxy item, the cursor) are modelled by   *)
(* their documented effect at the call sites.                              *)
(***************************************************************************)
EXTENDS Integers, Sequences, FiniteSets, TLC

\* ------------------------------------------------------------------ bounds
NumEngines == 2
MaxBalance == 2
MaxTimerId == 2

\* ------------------------------------------------------- program constants
kDefaultWidth == 828
kDefaultHeight == 512
kDefaultFps == 35
WindowMaximized == 2
WindowFullScreen == 4
OpacityThreshold == 50
IntBits == 32

NULL == 0
Engines == 1 .. NumEngines
EngineArgs == Engines \cup {NULL}
TimerIds == 1 .. MaxTimerId
NoValue == <<"novalue">>

\* the values the Framerate menu offers (AddMenuItem calls of the constructor)
MenuFps == {15, 25, 35, 60}
\* arguments SetFps(int) is exercised with: the menu's and other integers
FpsArgs == MenuFps \cup {-7, 0, 7}

\* opacities the overlay reports, in hundredths (qreal in [0.0, 1.0])
Opacities == {0, 25, 49, 50, 75, 100}

\* widget sizes <<width, height>> the window system may give the widget
WidgetSizes == {<<kDefaultWidth, kDefaultHeight>>, <<640, 480>>}

\* songs as <<artist, title>>, each a text of tokens; an artist may itself
\* contain a place marker
Songs == {<<<<"a1">>, <<"t1">>>>, <<<<"%2">>, <<"t2">>>>}
Positions == {<<3, 4>>}

\* --------------------------------------------------------- integer helpers
Abs(n) == IF n < 0 THEN -n ELSE n

\* C++ integer division: the quotient truncates toward zero (b # 0)
CDiv(a, b) ==
  IF (a < 0) = (b < 0) THEN Abs(a) \div Abs(b) ELSE -(Abs(a) \div Abs(b))

IntMax == ((2 ^ (IntBits - 2)) - 1) + (2 ^ (IntBits - 2))
IntMin == (-IntMax) - 1

RECURSIVE BitXor(_, _)
BitXor(a, b) ==
  IF a = 0 THEN b
  ELSE IF b = 0 THEN a
  ELSE (((a % 2) + (b % 2)) % 2) + (2 * BitXor(a \div 2, b \div 2))

BitSet(flags, bit) == (flags \div bit) % 2 = 1

\* ------------------------------------------- QSettings text of an integer
DigitChars == <<"0", "1", "2", "3", "4", "5", "6", "7", "8", "9">>

DigitValue(c) ==
  IF \E i \in 1 .. 10 : DigitChars[i] = c
  THEN (CHOOSE i \in 1 .. 10 : DigitChars[i] = c) - 1
  ELSE -1

RECURSIVE NatToText(_)
NatToText(n) ==
  IF n < 10 THEN <<DigitChars[n + 1]>>
  ELSE Append(NatToText(n \div 10), DigitChars[(n % 10) + 1])

\* QSettings::setValue("fps", int): the stored text of the integer
IntToTextNoSign(n) == NatToText(Abs(n))
IntToText(n) == IF n < 0 THEN <<"-">> \o NatToText(-n) ELSE NatToText(n)

RECURSIVE DigitsToNat(_)
DigitsToNat(s) ==
  IF Len(s) = 0 THEN 0
  ELSE (10 * DigitsToNat(SubSeq(s, 1, Len(s) - 1))) + DigitValue(s[Len(s)])

AllDigits(s) == Len(s) > 0 /\ \A i \in 1 .. Len(s) : DigitValue(s[i]) >= 0

\* QVariant::toInt() of a stored text: 0 when the text is not an int
TextToInt(s) ==
  LET neg == Len(s) > 0 /\ s[1] = "-"
      body == IF neg THEN SubSeq(s, 2, Len(s)) ELSE s
      v == IF neg THEN -DigitsToNat(body) ELSE DigitsToNat(body)
  IN IF AllDigits(body) /\ v >= IntMin /\ v <= IntMax THEN v ELSE 0

\* s.value("fps", kDefaultFps).toInt()
FpsFromSettings(stored) ==
  IF stored = NoValue THEN kDefaultFps ELSE TextToInt(stored)

\* texts the settings store may hold under "fps" when the program starts
StoredFpsTexts == {IntToText(n) : n \in FpsArgs} \cup {<<"x">>}

\* ------------------------------------------------ QWidget geometry blobs
\* QWidget::saveGeometry(): a tagged blob of the size and of the maximized
\* and fullscreen bits of the window state
SaveGeometry(sz, ws) ==
  <<"QGeom", sz[1], sz[2],
    IF BitSet(ws, WindowMaximized) THEN 1 ELSE 0,
    IF BitSet(ws, WindowFullScreen) THEN 1 ELSE 0>>

\* QVariant::toByteArray() of the stored value: empty when the key is missing
ToByteArray(stored) == IF stored = NoValue THEN <<>> ELSE stored

\* QWidget::restoreGeometry(): FALSE for a blob that is not a saved geometry
CanRestoreGeometry(blob) == Len(blob) = 5 /\ blob[1] = "QGeom"
RestoredSizeSwapped(blob) == <<blob[3], blob[2]>>
RestoredSize(blob) == <<blob[2], blob[3]>>
RestoredWindowState(blob) ==
  (IF blob[4] = 1 THEN WindowMaximized ELSE 0)
  + (IF blob[5] = 1 THEN WindowFullScreen ELSE 0)

\* window states a stored geometry may carry
StoredWindowStates == {0, WindowMaximized, WindowFullScreen}
StoredGeometries ==
  {SaveGeometry(sz, ws) : sz \in WidgetSizes, ws \in StoredWindowStates}
  \cup {<<"junk">>}

\* ------------------------------------------------------- QBasicTimer
\* QObject::startTimer refuses a negative interval and returns id 0
TimerStarts(msec) == msec >= 0

\* ------------------------------------------------- overlay proxy, cursor
\* QGraphicsItem::setOpacity clamps to [0.0, 1.0] (hundredths here)
BoundOpacity(value) ==
  IF value < 0 THEN 0 ELSE IF value > 100 THEN 100 ELSE value

\* ChangeOverlayOpacity: blank cursor when the overlay is mostly transparent
CursorForInclusive(value) == IF value <= OpacityThreshold THEN "blank" ELSE "unset"
CursorFor(value) == IF value < OpacityThreshold THEN "blank" ELSE "unset"

\* AddMenuItem: the item is checked when its value is the current fps
MenuCheckedFor(def) == {value \in MenuFps : value = def}

\* QString::arg(a1, a2): both place markers are replaced in one pass, so
\* a marker inside a1 is not replaced again
RECURSIVE ArgOnePass(_, _, _)
ArgOnePass(fmt, a1, a2) ==
  IF Len(fmt) = 0 THEN <<>>
  ELSE (IF fmt[1] = "%1" THEN a1
        ELSE IF fmt[1] = "%2" THEN a2
        ELSE <<fmt[1]>>) \o ArgOnePass(Tail(fmt), a1, a2)

\* QString("%1 - %2").arg(metadata.artist(), metadata.title())
SongTitleTextChained(song) ==
  ArgOnePass(ArgOnePass(<<"%1", " - ", "%2">>, song[1], <<"%2">>),
             <<"%1">>, song[2])
SongTitleText(song) == ArgOnePass(<<"%1", " - ", "%2">>, song[1], song[2])

\* tr("Clementine")
StoppedTitle == <<"Clementine">>

\* ------------------------------------------------------------------ state
VARIABLES
  crashed,            \* the process died (null dereference, division by 0)
  visible,            \* QWidget::isVisible()
  engine_,            \* GstEngine* engine_, NULL or an engine
  consumers,          \* engines on which vis_ is a registered consumer
  balance,            \* per engine: AddBufferConsumer minus Remove calls
  timer_id,           \* update_timer_.timerId(), 0 when inactive
  timer_interval,     \* interval the running timer was started with
  fps_,               \* int fps_
  s_fps,              \* settings "Visualisations/fps"
  s_geometry,         \* settings "Visualisations/geometry"
  size_,              \* QWidget::size()
  window_state,       \* QWidget::windowState()
  scene_rect,         \* scene()->sceneRect() as <<x, y, width, height>>
  overlay_size,       \* overlay_->size()
  proxy_opacity,      \* overlay_proxy_->opacity(), hundredths
  cursor,             \* "blank" (Qt::BlankCursor) or "unset"
  overlay_visible,    \* last overlay_->SetVisible argument, "unset" if none
  overlay_title,      \* last overlay_->SetSongTitle argument
  menu_checked,       \* values of the checked Framerate menu items
  popup_pos,          \* where menu_ was last popped up, "none" if never
  scene_updates,      \* scene()->update() calls made by the last handler
  reported_opacity,   \* last value the overlay reported (0 at construction)
  last_set_fps,       \* <<n>> for the last SetFps(n) of any container, or <<>>
  last_mouse,         \* the last of enter, move, leave seen, "none" if none
  null_deref,         \* a method was called through a NULL engine pointer
  last_title_event,   \* the last of SongMetadataChanged (with its song) and
                      \* Stopped seen, <<"none">> if none
  ctor_geometry,      \* what s.value("geometry") held at construction
  last_resize_geometry, \* geometry the last resizeEvent saved, <<>> if none
  last_op,            \* the handler that ran last
  last_arg            \* and its argument

vars == <<crashed, visible, engine_, consumers, balance, timer_id,
          timer_interval, fps_, s_fps, s_geometry, size_, window_state,
          scene_rect, overlay_size, proxy_opacity, cursor, overlay_visible,
          overlay_title, menu_checked, popup_pos, scene_updates,
          reported_opacity, last_set_fps, last_mouse, null_deref,
          last_title_event, ctor_geometry, last_resize_geometry, last_op,
          last_arg>>

engineVars == <<engine_, consumers, balance, null_deref>>
timerVars == <<timer_id, timer_interval>>
fpsVars == <<fps_, s_fps, last_set_fps, menu_checked>>
geomVars == <<s_geometry, size_, window_state, scene_rect, overlay_size,
              ctor_geometry, last_resize_geometry>>
overlayVars == <<proxy_opacity, cursor, reported_opacity, overlay_visible,
                 overlay_title, popup_pos, last_mouse, last_title_event>>

\* ------------------------------------------------ undefined behaviour
\* 1000 / fps_ with fps_ = 0 is undefined: the process traps, or the
\* division yields whatever the hardware leaves (0 on ARM, junk elsewhere)
UBQuotients == {0, -1}
Quotients(fps) == IF fps = 0 THEN UBQuotients ELSE {CDiv(1000, fps)}

\* ------------------------------------------------ collaborators' calls
\* update_timer_.start(msec, this): stop, then startTimer(msec)
StartTimer(msec, id) ==
  /\ timer_id' = IF TimerStarts(msec) THEN id ELSE 0
  /\ timer_interval' = IF TimerStarts(msec) THEN msec ELSE 0

\* update_timer_.stop()
StopTimerKeepsRunning == UNCHANGED <<timer_id, timer_interval>>
StopTimer ==
  /\ timer_id' = 0
  /\ timer_interval' = 0

\* the engine's side of the two calls: its registered consumers after
EngineAdd(registered, e) == registered \cup {e}
EngineRemove(registered, e) == registered \ {e}

\* engine->AddBufferConsumer(vis_)
AddBufferConsumer(e) ==
  /\ balance[e] < MaxBalance
  /\ consumers' = EngineAdd(consumers, e)
  /\ balance' = [balance EXCEPT ![e] = @ + 1]

\* engine->RemoveBufferConsumer(vis_)
RemoveBufferConsumer(e) ==
  /\ consumers' = EngineRemove(consumers, e)
  /\ balance' = [balance EXCEPT ![e] = @ - 1]

\* SizeChanged(): the geometry saved, the scene rectangle and the overlay
\* size that result for a widget of size sz in window state ws
SceneRect(sz) == <<0, 0, sz[1], sz[2]>>
SizeChangedDefaultOverlay(sz, ws) ==
  [geometry |-> SaveGeometry(sz, ws),
   scene_rect |-> SceneRect(sz),
   overlay_size |-> <<kDefaultWidth, kDefaultHeight>>]
SizeChanged(sz, ws) ==
  [geometry |-> SaveGeometry(sz, ws),
   scene_rect |-> SceneRect(sz),
   overlay_size |-> sz]

\* ToggleFullscreen(): windowState() ^ Qt::WindowFullScreen
ToggledSetFullscreen(ws) == WindowFullScreen
ToggledWindowState(ws) == BitXor(ws, WindowFullScreen)

\* mapToGlobal(pos) for the window's origin on screen
WindowOrigin == <<100, 50>>
MapToGlobal(pos) == <<pos[1] + WindowOrigin[1], pos[2] + WindowOrigin[2]>>

\* ------------------------------------------------------- construction
\* the members after VisualisationContainer::VisualisationContainer ran
\* against a settings store holding stored_fps and stored_geometry
VisualisationContainer(stored_fps, stored_geometry) ==
  LET blob == ToByteArray(stored_geometry)
      restored == CanRestoreGeometry(blob)
      sz == IF restored THEN RestoredSize(blob)
            ELSE <<kDefaultWidth, kDefaultHeight>>
      ws == IF restored THEN RestoredWindowState(blob) ELSE 0
      fps == FpsFromSettings(stored_fps)
      changed == SizeChanged(sz, ws)
  IN [engine_ |-> NULL,
      fps_ |-> fps,
      size_ |-> sz,
      window_state |-> ws,
      s_geometry |-> changed.geometry,
      scene_rect |-> changed.scene_rect,
      overlay_size |-> changed.overlay_size,
      proxy_opacity |-> BoundOpacity(0),
      cursor |-> CursorFor(0),
      menu_checked |-> MenuCheckedFor(fps)]

Init ==
  \E f \in StoredFpsTexts \cup {NoValue},
     g \in StoredGeometries \cup {NoValue} :
    LET c == VisualisationContainer(f, g) IN
    /\ crashed = FALSE
    /\ visible = FALSE
    /\ engine_ = c.engine_
    /\ consumers = {}
    /\ balance = [e \in Engines |-> 0]
    /\ timer_id = 0
    /\ timer_interval = 0
    /\ fps_ = c.fps_
    /\ s_fps = f
    /\ s_geometry = c.s_geometry
    /\ size_ = c.size_
    /\ window_state = c.window_state
    /\ scene_rect = c.scene_rect
    /\ overlay_size = c.overlay_size
    /\ proxy_opacity = c.proxy_opacity
    /\ cursor = c.cursor
    /\ overlay_visible = "unset"
    /\ overlay_title = <<"unset">>
    /\ menu_checked = c.menu_checked
    /\ popup_pos = <<"none">>
    /\ scene_updates = 0
    /\ reported_opacity = 0
    /\ last_set_fps = <<>>
    /\ last_mouse = "none"
    /\ null_deref = FALSE
    /\ last_title_event = <<"none">>
    /\ ctor_geometry = g
    /\ last_resize_geometry = <<>>
    /\ last_op = "ctor"
    /\ last_arg = 0

\* the program is started again: a new container is constructed against
\* the settings the earlier one left in the store
Construct ==
  LET c == VisualisationContainer(s_fps, s_geometry) IN
    /\ crashed' = FALSE
    /\ visible' = FALSE
    /\ engine_' = c.engine_
    /\ consumers' = {}
    /\ balance' = [e \in Engines |-> 0]
    /\ timer_id' = 0
    /\ timer_interval' = 0
    /\ fps_' = c.fps_
    /\ s_geometry' = c.s_geometry
    /\ size_' = c.size_
    /\ window_state' = c.window_state
    /\ scene_rect' = c.scene_rect
    /\ overlay_size' = c.overlay_size
    /\ proxy_opacity' = c.proxy_opacity
    /\ cursor' = c.cursor
    /\ overlay_visible' = "unset"
    /\ overlay_title' = <<"unset">>
    /\ menu_checked' = c.menu_checked
    /\ popup_pos' = <<"none">>
    /\ scene_updates' = 0
    /\ reported_opacity' = 0
    /\ last_mouse' = "none"
    /\ null_deref' = FALSE
    /\ last_title_event' = <<"none">>
    /\ ctor_geometry' = s_geometry
    /\ last_op' = "ctor"
    /\ last_arg' = 0
    /\ UNCHANGED <<s_fps, last_set_fps, last_resize_geometry>>

\* what every handler records about itself
Ran(op, arg) ==
  /\ last_op' = op
  /\ last_arg' = arg

\* --------------------------------------------------------------- handlers
\* SetEngine(engine): dereferences engine when visible, NULL or not
SetEngine(e) ==
  /\ ~crashed
  /\ engine_' = e
  /\ IF visible
     THEN IF e = NULL
          THEN \* undefined: the call on NULL traps, or runs on junk
               /\ crashed' \in BOOLEAN
               /\ null_deref' = TRUE
               /\ UNCHANGED <<consumers, balance>>
          ELSE /\ AddBufferConsumer(e)
               /\ UNCHANGED <<crashed, null_deref>>
     ELSE UNCHANGED <<crashed, consumers, balance, null_deref>>
  /\ scene_updates' = 0
  /\ Ran("SetEngine", e)
  /\ UNCHANGED <<visible, timerVars, fpsVars, geomVars, overlayVars>>

showEvent ==
  /\ ~crashed
  /\ ~visible
  /\ visible' = TRUE
  /\ \/ /\ fps_ = 0
        /\ crashed' = TRUE
        /\ UNCHANGED <<timerVars, consumers, balance>>
     \/ \E msec \in Quotients(fps_), id \in TimerIds :
          /\ StartTimer(msec, id)
          /\ IF engine_ # NULL
             THEN AddBufferConsumer(engine_)
             ELSE UNCHANGED <<consumers, balance>>
          /\ UNCHANGED crashed
  /\ scene_updates' = 0
  /\ Ran("showEvent", 0)
  /\ UNCHANGED <<engine_, null_deref, fpsVars, geomVars, overlayVars>>

hideEvent ==
  /\ ~crashed
  /\ visible
  /\ visible' = FALSE
  /\ StopTimer
  /\ IF engine_ # NULL
     THEN RemoveBufferConsumer(engine_)
     ELSE UNCHANGED <<consumers, balance>>
  /\ scene_updates' = 0
  /\ Ran("hideEvent", 0)
  /\ UNCHANGED <<crashed, engine_, null_deref, fpsVars, geomVars,
                 overlayVars>>

resizeEvent(sz) ==
  /\ ~crashed
  /\ size_' = sz
  /\ LET changed == SizeChanged(sz, window_state) IN
       /\ s_geometry' = changed.geometry
       /\ scene_rect' = changed.scene_rect
       /\ overlay_size' = changed.overlay_size
       /\ last_resize_geometry' = changed.geometry
  /\ scene_updates' = 0
  /\ Ran("resizeEvent", 0)
  /\ UNCHANGED <<crashed, visible, engineVars, timerVars, fpsVars,
                 window_state, ctor_geometry, overlayVars>>

\* scene()->update() calls a timer event with this id makes
TimerUpdatesAnyId(id, update_id) == 1
TimerUpdates(id, update_id) == IF id = update_id THEN 1 ELSE 0

timerEvent(id) ==
  /\ ~crashed
  /\ scene_updates' = TimerUpdates(id, timer_id)
  /\ Ran("timerEvent", id)
  /\ UNCHANGED <<crashed, visible, engineVars, timerVars, fpsVars,
                 geomVars, overlayVars>>

SongMetadataChanged(song) ==
  /\ ~crashed
  /\ overlay_title' = SongTitleText(song)
  /\ last_title_event' = <<"SongMetadataChanged", song>>
  /\ scene_updates' = 0
  /\ Ran("SongMetadataChanged", 0)
  /\ UNCHANGED <<crashed, visible, engineVars, timerVars, fpsVars,
                 geomVars, proxy_opacity, cursor, reported_opacity,
                 overlay_visible, popup_pos, last_mouse>>

Stopped ==
  /\ ~crashed
  /\ overlay_title' = StoppedTitle
  /\ last_title_event' = <<"Stopped">>
  /\ scene_updates' = 0
  /\ Ran("Stopped", 0)
  /\ UNCHANGED <<crashed, visible, engineVars, timerVars, fpsVars,
                 geomVars, proxy_opacity, cursor, reported_opacity,
                 overlay_visible, popup_pos, last_mouse>>

\* the overlay's OpacityChanged(value) signal
ChangeOverlayOpacity(value) ==
  /\ ~crashed
  /\ reported_opacity' = value
  /\ proxy_opacity' = BoundOpacity(value)
  /\ cursor' = CursorFor(value)
  /\ scene_updates' = 0
  /\ Ran("ChangeOverlayOpacity", value)
  /\ UNCHANGED <<crashed, visible, engineVars, timerVars, fpsVars,
                 geomVars, overlay_visible, overlay_title, popup_pos,
                 last_mouse, last_title_event>>

\* overlay_->SetVisible(v) of the three mouse handlers
OverlaySetVisible(op, v) ==
  /\ ~crashed
  /\ overlay_visible' = v
  /\ last_mouse' = op
  /\ scene_updates' = 0
  /\ Ran(op, 0)
  /\ UNCHANGED <<crashed, visible, engineVars, timerVars, fpsVars,
                 geomVars, proxy_opacity, cursor, reported_opacity,
                 overlay_title, popup_pos, last_title_event>>

enterEvent == OverlaySetVisible("enterEvent", TRUE)

LeaveVisibilityKept == TRUE
LeaveVisibility == FALSE
leaveEvent == OverlaySetVisible("leaveEvent", LeaveVisibility)

mouseMoveEvent == OverlaySetVisible("mouseMoveEvent", TRUE)

\* setWindowState(windowState() ^ Qt::WindowFullScreen)
SetToggledWindowStateStopsTimer(op) ==
  /\ ~crashed
  /\ window_state' = ToggledWindowState(window_state)
  /\ StopTimer
  /\ scene_updates' = 0
  /\ Ran(op, window_state)
  /\ UNCHANGED <<crashed, visible, engineVars, fpsVars,
                 s_geometry, size_, scene_rect, overlay_size,
                 ctor_geometry, last_resize_geometry, overlayVars>>
SetToggledWindowState(op) ==
  /\ ~crashed
  /\ window_state' = ToggledWindowState(window_state)
  /\ scene_updates' = 0
  /\ Ran(op, window_state)
  /\ UNCHANGED <<crashed, visible, engineVars, timerVars, fpsVars,
                 s_geometry, size_, scene_rect, overlay_size,
                 ctor_geometry, last_resize_geometry, overlayVars>>

mouseDoubleClickEvent == SetToggledWindowState("mouseDoubleClickEvent")

\* the "Toggle fullscreen" menu action
ToggleFullscreen == SetToggledWindowState("ToggleFullscreen")

\* menu_->popup(mapToGlobal(pos))
PopupMenuAt(op, pos) ==
  /\ ~crashed
  /\ popup_pos' = MapToGlobal(pos)
  /\ scene_updates' = 0
  /\ Ran(op, 0)
  /\ UNCHANGED <<crashed, visible, engineVars, timerVars, fpsVars,
                 geomVars, proxy_opacity, cursor, reported_opacity,
                 overlay_visible, overlay_title, last_mouse,
                 last_title_event>>

contextMenuEvent(pos) == PopupMenuAt("contextMenuEvent", pos)

\* the overlay's ShowPopupMenu(pos) signal
ShowPopupMenu(pos) == PopupMenuAt("ShowPopupMenu", pos)

\* the body of SetFps(fps)
SetFpsBody(fps) ==
  /\ ~crashed
  /\ fps_' = fps
  /\ s_fps' = IntToText(fps)
  /\ last_set_fps' = <<fps>>
  /\ \/ /\ fps = 0
        /\ crashed' = TRUE
        /\ StopTimer
     \/ \E msec \in Quotients(fps), id \in TimerIds :
          /\ StartTimer(msec, id)
          /\ UNCHANGED crashed
  /\ scene_updates' = 0
  /\ Ran("SetFps", fps)
  /\ UNCHANGED <<visible, engineVars, geomVars, overlayVars>>

\* SetFps called with any integer
SetFps(fps) ==
  /\ SetFpsBody(fps)
  /\ UNCHANGED menu_checked

\* a Framerate menu item is triggered: the exclusive group checks it and
\* the signal mapper calls SetFps with the item's value
FpsMenuItemTriggered(value) ==
  /\ menu_checked' = {value}
  /\ SetFpsBody(value)

Next ==
  \/ Construct
  \/ \E e \in EngineArgs : SetEngine(e)
  \/ showEvent
  \/ hideEvent
  \/ \E sz \in WidgetSizes : resizeEvent(sz)
  \/ \E id \in TimerIds : timerEvent(id)
  \/ \E song \in Songs : SongMetadataChanged(song)
  \/ Stopped
  \/ \E value \in Opacities : ChangeOverlayOpacity(value)
  \/ enterEvent
  \/ leaveEvent
  \/ mouseMoveEvent
  \/ mouseDoubleClickEvent
  \/ ToggleFullscreen
  \/ \E pos \in Positions : contextMenuEvent(pos)
  \/ \E pos \in Positions : ShowPopupMenu(pos)
  \/ \E fps \in FpsArgs : SetFps(fps)
  \/ \E value \in MenuFps : FpsMenuItemTriggered(value)

Spec == Init /\ [][Next]_vars

\* the events that subscribe to and unsubscribe from the engine
NextSubscription ==
  \/ Construct
  \/ \E e \in EngineArgs : SetEngine(e)
  \/ showEvent
  \/ hideEvent

SpecSubscription == Init /\ [][NextSubscription]_vars

\* the same events with SetEngine given engines only, never NULL
NextEngineSwap ==
  \/ Construct
  \/ \E e \in Engines : SetEngine(e)
  \/ showEvent
  \/ hideEvent

SpecEngineSwap == Init /\ [][NextEngineSwap]_vars

\* the events that drive fps_ and the repaint timer
NextFramerate ==
  \/ Construct
  \/ showEvent
  \/ hideEvent
  \/ \E id \in TimerIds : timerEvent(id)
  \/ \E fps \in FpsArgs : SetFps(fps)
  \/ \E value \in MenuFps : FpsMenuItemTriggered(value)

SpecFramerate == Init /\ [][NextFramerate]_vars

\* the events that drive the window's size and state
NextWindow ==
  \/ Construct
  \/ \E sz \in WidgetSizes : resizeEvent(sz)
  \/ mouseDoubleClickEvent
  \/ ToggleFullscreen

SpecWindow == Init /\ [][NextWindow]_vars

\* the events that drive the overlay, the cursor and the popup menu
NextOverlay ==
  \/ Construct
  \/ \E song \in Songs : SongMetadataChanged(song)
  \/ Stopped
  \/ \E value \in Opacities : ChangeOverlayOpacity(value)
  \/ enterEvent
  \/ leaveEvent
  \/ mouseMoveEvent
  \/ \E pos \in Positions : contextMenuEvent(pos)
  \/ \E pos \in Positions : ShowPopupMenu(pos)

SpecOverlay == Init /\ [][NextOverlay]_vars

\* the handlers that leave the frame rate, the timer and the engine alone,
\* interleaved with the four that drive them, for a container constructed
\* with no stored settings
InitFrame ==
  /\ Init
  /\ s_fps = NoValue
  /\ ctor_geometry = NoValue

FrameEngines == {1}
FrameFps == {25}
FrameOpacities == {0, 100}

NextFrame ==
  \/ \E e \in FrameEngines : SetEngine(e)
  \/ showEvent
  \/ hideEvent
  \/ \E fps \in FrameFps : SetFps(fps)
  \/ \E sz \in WidgetSizes : resizeEvent(sz)
  \/ \E song \in Songs : SongMetadataChanged(song)
  \/ Stopped
  \/ \E value \in FrameOpacities : ChangeOverlayOpacity(value)
  \/ enterEvent
  \/ leaveEvent
  \/ mouseMoveEvent
  \/ mouseDoubleClickEvent
  \/ ToggleFullscreen
  \/ \E pos \in Positions : contextMenuEvent(pos)
  \/ \E pos \in Positions : ShowPopupMenu(pos)

SpecFrame == InitFrame /\ [][NextFrame]_vars

\* ================================================================ claims

\* C1: for every engine, the scene being a registered buffer consumer on
\* that engine implies the container is visible
C1_ConsumerOnlyWhileVisible ==
  \A e \in Engines : e \in consumers => visible

\* C2: for every engine the AddBufferConsumer and RemoveBufferConsumer calls
\* alternate starting with Add: Adds minus Removes is 0 or 1, and 0 whenever
\* the container is hidden
C2_AddRemoveAlternate ==
  \A e \in Engines :
    /\ balance[e] \in {0, 1}
    /\ (~visible => balance[e] = 0)

\* C3: whenever the container is visible the repaint timer is running and
\* its interval is 1000 / fps_ (integer division)
C3_VisibleTimerAtFps ==
  visible =>
    /\ timer_id # 0
    /\ fps_ # 0
    /\ timer_interval = CDiv(1000, fps_)

\* C4: right after SetFps(n), fps_ is n and the repaint timer is running
\* with interval 1000 / n
C4_SetFpsRestartsTimer ==
  last_op = "SetFps" =>
    /\ fps_ = last_arg
    /\ timer_id # 0
    /\ last_arg # 0
    /\ timer_interval = CDiv(1000, last_arg)

\* C5: after construction and after every resize event the scene rectangle
\* is (0, 0, width, height) of the widget, the overlay has the widget's size
\* and the stored geometry is the widget's saved geometry
C5_ResizeUpdatesSceneAndOverlay ==
  last_op \in {"ctor", "resizeEvent"} =>
    /\ scene_rect = <<0, 0, size_[1], size_[2]>>
    /\ overlay_size = size_
    /\ s_geometry = SaveGeometry(size_, window_state)

C5_Witness ==
  /\ last_op = "resizeEvent"
  /\ size_ # <<kDefaultWidth, kDefaultHeight>>
  /\ overlay_size = size_
  /\ scene_rect = <<0, 0, size_[1], size_[2]>>

\* C6: in every state the cursor is blank exactly when the proxy's opacity
\* is below 0.5, and the proxy's opacity is the last value the overlay
\* reported (0.0 right after construction)
C6_CursorFollowsOpacity ==
  /\ (cursor = "blank") <=> (proxy_opacity < OpacityThreshold)
  /\ cursor \in {"blank", "unset"}
  /\ proxy_opacity = reported_opacity

C6_Witness ==
  /\ last_op = "ChangeOverlayOpacity"
  /\ reported_opacity = OpacityThreshold
  /\ cursor = "unset"

C8_TimerEventRepaints ==
  last_op = "timerEvent" =>
    /\ (last_arg = timer_id => scene_updates = 1)
    /\ (last_arg # timer_id => scene_updates = 0)

C8_Witness ==
  /\ last_op = "timerEvent"
  /\ visible
  /\ timer_id # 0
  /\ last_arg = timer_id
  /\ scene_updates = 1

\* C9: a double-click or the "Toggle fullscreen" action flips the
\* fullscreen flag of the window state and no other flag, and a second
\* toggle right after restores the window state
IsToggle(op) == op \in {"mouseDoubleClickEvent", "ToggleFullscreen"}

C9_ToggleFlipsFullscreenOnly ==
  /\ [](IsToggle(last_op) =>
         /\ BitSet(window_state, WindowFullScreen)
              # BitSet(last_arg, WindowFullScreen)
         /\ window_state % WindowFullScreen = last_arg % WindowFullScreen
         /\ window_state \div (2 * WindowFullScreen)
              = last_arg \div (2 * WindowFullScreen))
  /\ [][(IsToggle(last_op) /\ IsToggle(last_op'))
          => window_state' = last_arg]_vars

C9_Witness ==
  /\ last_op = "mouseDoubleClickEvent"
  /\ last_arg = WindowMaximized + WindowFullScreen
  /\ window_state = WindowMaximized

\* C10: the visibility last requested of the overlay is "visible" when the
\* most recent of the enter, move and leave events was an enter or a move,
\* and "hidden" when it was a leave
C10_OverlayFollowsMouse ==
  /\ last_mouse \in {"enterEvent", "mouseMoveEvent"}
       => overlay_visible = TRUE
  /\ last_mouse = "leaveEvent" => overlay_visible = FALSE

C10_Witness ==
  /\ last_mouse = "leaveEvent"
  /\ last_op = "ChangeOverlayOpacity"
  /\ overlay_visible = FALSE

\* C11: the overlay title is set by the most recent of the
\* SongMetadataChanged and Stopped events: "Clementine" after Stopped,
\* "<artist> - <title>" of the song after SongMetadataChanged
C11_TitleFollowsLastEvent ==
  /\ last_title_event[1] = "Stopped" => overlay_title = <<"Clementine">>
  /\ last_title_event[1] = "SongMetadataChanged" =>
       overlay_title
         = last_title_event[2][1] \o <<" - ">> \o last_title_event[2][2]

C11_Witness ==
  /\ last_title_event[1] = "SongMetadataChanged"
  /\ last_title_event[2][1] = <<"%2">>
  /\ overlay_title = <<"%2", " - ", "t2">>
  /\ last_op = "leaveEvent"

\* C12 as stated: the repaint timer being active implies the container is
\* visible
C12_TimerOnlyWhileVisible == timer_id # 0 => visible

\* C12 as amended: the repaint timer is stopped after construction and after
\* every hide event, and while the container is hidden only a SetFps call
\* starts it
C12_TimerStoppedByHide ==
  /\ [](last_op \in {"ctor", "hideEvent"} => timer_id = 0)
  /\ [][(timer_id' # 0 /\ ~visible')
          => (timer_id # 0 \/ last_op' = "SetFps")]_vars

C12_Witness ==
  /\ last_op = "SetFps"
  /\ ~visible
  /\ timer_id # 0

\* C13: no AddBufferConsumer or RemoveBufferConsumer call is made through a
\* NULL engine pointer
C13_NoNullDereference == ~null_deref

\* C14: fps_ is strictly positive in every state, so 1000 / fps_ never
\* divides by zero
C14_FpsPositive == fps_ > 0

\* C15: exactly one of the four Framerate menu items is checked and its
\* value is fps_
C15_MenuReflectsFps ==
  /\ Cardinality(menu_checked) = 1
  /\ menu_checked = {fps_}

\* C16: a container constructed when the store holds the geometry the last
\* resize of an earlier container saved restores that geometry, one
\* constructed when the stored value is missing or cannot be restored has
\* the default size 828x512, and in both cases the geometry stored after
\* construction is the container's geometry
C16_GeometryRoundTrips ==
  last_op = "ctor" =>
    /\ (last_resize_geometry # <<>> /\ ctor_geometry = last_resize_geometry)
         => SaveGeometry(size_, window_state) = last_resize_geometry
    /\ ~CanRestoreGeometry(ToByteArray(ctor_geometry))
         => size_ = <<828, 512>>
    /\ s_geometry = SaveGeometry(size_, window_state)

C16_Witness ==
  /\ last_op = "ctor"
  /\ last_resize_geometry # <<>>
  /\ ctor_geometry = last_resize_geometry
  /\ size_ = <<640, 480>>
  /\ window_state = WindowFullScreen

\* C17: resize, mouse enter, move and leave, double-click, opacity-change,
\* song-metadata, stopped and popup-menu events leave fps_, the stored fps,
\* the repaint timer and the engine's consumer registration unchanged; of
\* the handlers of a container only show, hide, SetEngine and SetFps change
\* them
FrameOps ==
  {"resizeEvent", "enterEvent", "mouseMoveEvent", "leaveEvent",
   "mouseDoubleClickEvent", "ToggleFullscreen", "ChangeOverlayOpacity",
   "SongMetadataChanged", "Stopped", "contextMenuEvent", "ShowPopupMenu"}
DriverOps == {"showEvent", "hideEvent", "SetEngine", "SetFps"}
framed == <<fps_, s_fps, timer_id, timer_interval, consumers, balance>>

C17_FrameOfOtherHandlers ==
  [][/\ last_op' \in FrameOps => framed' = framed
     /\ (framed' # framed /\ last_op' # "ctor") => last_op' \in DriverOps
    ]_vars

C17_Witness ==
  /\ last_op = "mouseDoubleClickEvent"
  /\ visible
  /\ timer_id # 0
  /\ timer_interval = 40
  /\ consumers # {}
  /\ last_mouse = "leaveEvent"
  /\ last_resize_geometry # <<>>

====
